---- MODULE Spec2Model ----
(***************************************************************************)
(* A model of pywavesurfer/ws.py: loadDataFile and its helpers.            *)
(*                                                                         *)
(* Text (node names, the format selector, the version string) is a         *)
(* sequence of one-character strings, so that parsing, lower-casing and    *)
(* formatting are computed character by character as Python does.          *)
(* Floating-point values are exact fractions n/d plus inf, -inf and nan.   *)
(* The inputs are drawn from values on which double arithmetic is exact    *)
(* (integers below 2^31 and power-of-two channel scales); narrowing to     *)
(* single precision rounds the significand to 24 bits.                     *)
(***************************************************************************)
EXTENDS Integers, Sequences, FiniteSets, TLC

VARIABLES h5file, format_string, pc, data_file_as_dict, version,
          n_a_i_channels, error

vars == <<h5file, format_string, pc, data_file_as_dict, version,
          n_a_i_channels, error>>

(* ------------------------------ text ---------------------------------- *)
s_header == <<"h", "e", "a", "d", "e", "r">>
s_VersionString == <<"V", "e", "r", "s", "i", "o", "n", "S", "t", "r", "i", "n", "g">>
s_Acquisition == <<"A", "c", "q", "u", "i", "s", "i", "t", "i", "o", "n">>
s_Stimulation == <<"S", "t", "i", "m", "u", "l", "a", "t", "i", "o", "n">>
s_SampleRate == <<"S", "a", "m", "p", "l", "e", "R", "a", "t", "e">>
s_NAIChannels == <<"N", "A", "I", "C", "h", "a", "n", "n", "e", "l", "s">>
s_AnalogChannelScales == <<"A", "n", "a", "l", "o", "g", "C", "h", "a", "n", "n", "e", "l", "S", "c", "a", "l", "e", "s">>
s_ChannelScales == <<"C", "h", "a", "n", "n", "e", "l", "S", "c", "a", "l", "e", "s">>
s_AIChannelScales == <<"A", "I", "C", "h", "a", "n", "n", "e", "l", "S", "c", "a", "l", "e", "s">>
s_IsAIChannelActive == <<"I", "s", "A", "I", "C", "h", "a", "n", "n", "e", "l", "A", "c", "t", "i", "v", "e">>
s_IsAnalogChannelActive == <<"I", "s", "A", "n", "a", "l", "o", "g", "C", "h", "a", "n", "n", "e", "l", "A", "c", "t", "i", "v", "e">>
s_AIScalingCoefficients == <<"A", "I", "S", "c", "a", "l", "i", "n", "g", "C", "o", "e", "f", "f", "i", "c", "i", "e", "n", "t", "s">>
s_AnalogScalingCoefficients == <<"A", "n", "a", "l", "o", "g", "S", "c", "a", "l", "i", "n", "g", "C", "o", "e", "f", "f", "i", "c", "i", "e", "n", "t", "s">>
s_analogScans == <<"a", "n", "a", "l", "o", "g", "S", "c", "a", "n", "s">>
s_sweep == <<"s", "w", "e", "e", "p">>
s_trial == <<"t", "r", "i", "a", "l">>
s_raw == <<"r", "a", "w">>
s_single == <<"s", "i", "n", "g", "l", "e">>
s_inf == <<"i", "n", "f">>
s_infinity == <<"i", "n", "f", "i", "n", "i", "t", "y">>
s_nan == <<"n", "a", "n">>
s_double == <<"d", "o", "u", "b", "l", "e">>
s_percent_s == <<"%", "s">>
s_n == <<"n">>

UpperCase == <<"A", "B", "C", "D", "E", "F", "G", "H", "I", "J", "K", "L", "M",
               "N", "O", "P", "Q", "R", "S", "T", "U", "V", "W", "X", "Y", "Z">>
LowerCase == <<"a", "b", "c", "d", "e", "f", "g", "h", "i", "j", "k", "l", "m",
               "n", "o", "p", "q", "r", "s", "t", "u", "v", "w", "x", "y", "z">>
Digits == <<"0", "1", "2", "3", "4", "5", "6", "7", "8", "9">>

LowerChar(c) ==
    IF \E i \in 1..26 : UpperCase[i] = c
    THEN LowerCase[CHOOSE i \in 1..26 : UpperCase[i] = c]
    ELSE c

\* str.lower()
PyLower(s) == [i \in 1..Len(s) |-> LowerChar(s[i])]

IsDigit(c) == \E i \in 1..10 : Digits[i] = c
DigitVal(c) == (CHOOSE i \in 1..10 : Digits[i] = c) - 1

\* the slice s[a:b] of Python (0-based a, exclusive b), clipped to the string
PySlice(s, a, b) ==
    LET hi == IF b < Len(s) THEN b ELSE Len(s)
    IN  IF a >= hi THEN <<>> ELSE SubSeq(s, a + 1, hi)

(* --------------------------- results ---------------------------------- *)
\* a call either returns a value or raises an exception
Ok(v) == [ok |-> TRUE, val |-> v, err |-> ""]
Raise(e) == [ok |-> FALSE, val |-> <<>>, err |-> e]

ValueError == "ValueError"
OverflowError == "OverflowError"
ZeroDivisionError == "ZeroDivisionError"
RuntimeErrorFieldName == "RuntimeError: Unable to convert group/dataset name to a valid field name."
KeyErrorScales == "KeyError: Unable to read channel scale information from file."
KeyErrorActive == "KeyError: Unable to read active/inactive channel information from file."
KeyErrorCoefficients == "KeyError: Unable to read channel scaling coefficients from file."
\* a failed dictionary lookup d[k] that no handler rewrites
KeyErrorLookup == "KeyError"
IndexError == "IndexError"

(* ---------------------------- floats ---------------------------------- *)
Abs(n) == IF n < 0 THEN -n ELSE n

RECURSIVE Gcd(_, _)
Gcd(a, b) == IF b = 0 THEN a ELSE Gcd(b, a % b)

\* floor(a / b) for b > 0
FloorDiv(a, b) == IF a >= 0 THEN a \div b ELSE -((-a + b - 1) \div b)

\* the finite value n/d in lowest terms, d > 0
Fin(n, d) ==
    LET g == Gcd(Abs(n), Abs(d))
        s == IF d < 0 THEN -1 ELSE 1
    IN  [k |-> "fin", n |-> s * (IF n >= 0 THEN n \div g ELSE -((-n) \div g)), d |-> Abs(d) \div g]
Inf(sign) == [k |-> "inf", n |-> sign, d |-> 0]
NaN == [k |-> "nan", n |-> 0, d |-> 0]

Sign(n) == IF n > 0 THEN 1 ELSE IF n < 0 THEN -1 ELSE 0

FMul(a, b) ==
    IF a.k = "nan" \/ b.k = "nan" THEN NaN
    ELSE IF a.k = "inf" \/ b.k = "inf"
         THEN IF Sign(a.n) * Sign(b.n) = 0 THEN NaN ELSE Inf(Sign(a.n) * Sign(b.n))
         ELSE Fin(a.n * b.n, a.d * b.d)

FAdd(a, b) ==
    IF a.k = "nan" \/ b.k = "nan" THEN NaN
    ELSE IF a.k = "inf" /\ b.k = "inf" THEN (IF a.n = b.n THEN a ELSE NaN)
    ELSE IF a.k = "inf" THEN a
    ELSE IF b.k = "inf" THEN b
    ELSE Fin(a.n * b.d + b.n * a.d, a.d * b.d)

\* a < b
FLess(a, b) ==
    IF a.k = "nan" \/ b.k = "nan" THEN FALSE
    ELSE IF a.k = "inf" THEN a.n < 0 /\ ~(b.k = "inf" /\ b.n < 0)
    ELSE IF b.k = "inf" THEN b.n > 0
    ELSE a.n * b.d < b.n * a.d

\* a == b (nan equals nothing)
FEq(a, b) == a.k # "nan" /\ b.k # "nan" /\ a = b

\* Python's float / number: a zero divisor raises
PyDivide(a, b) ==
    IF b.k = "fin" /\ b.n = 0 THEN Raise(ZeroDivisionError)
    ELSE IF a.k = "nan" \/ b.k = "nan" THEN Ok(NaN)
    ELSE IF b.k = "inf" THEN Ok(IF a.k = "inf" THEN NaN ELSE Fin(0, 1))
    ELSE IF a.k = "inf" THEN Ok(Inf(a.n * Sign(b.n)))
    ELSE Ok(Fin(a.n * b.d, a.d * b.n))

\* numpy's elementwise division: a zero divisor gives inf or nan
NpDivide(a, b) ==
    IF b.k = "fin" /\ b.n = 0
    THEN (IF a.k = "nan" \/ a.n = 0 THEN NaN ELSE Inf(Sign(a.n)))
    ELSE PyDivide(a, b).val

\* math.floor of a finite float
PyFloor(a) == FloorDiv(a.n, a.d)

\* the built-in round(x) of Python 3 on a float: to the nearest integer, a tie
\* to the even one; nan and inf raise
PyRound(a) ==
    IF a.k = "nan" THEN Raise(ValueError)
    ELSE IF a.k = "inf" THEN Raise(OverflowError)
    ELSE LET fl == FloorDiv(a.n, a.d)
             twice == 2 * (a.n - fl * a.d)
         IN  Ok(IF twice < a.d THEN fl
                ELSE IF twice > a.d THEN fl + 1
                ELSE IF fl % 2 = 0 THEN fl ELSE fl + 1)

(* ---------------------- Python text functions -------------------------- *)
RECURSIVE DigitEnd(_, _)
\* the first index at or after i of s that holds no digit
DigitEnd(s, i) == IF i <= Len(s) /\ IsDigit(s[i]) THEN DigitEnd(s, i + 1) ELSE i

RECURSIVE DigitsValue(_, _, _)
\* the number written by the digits s[i], ..., s[j - 1]
DigitsValue(s, i, j) ==
    IF j <= i THEN 0 ELSE DigitsValue(s, i, j - 1) * 10 + DigitVal(s[j - 1])

RECURSIVE Pow10(_)
Pow10(k) == IF k <= 0 THEN 1 ELSE 10 * Pow10(k - 1)

\* str.strip() of blanks
PyStrip(s) ==
    LET idx == {i \in 1..Len(s) : s[i] # " "}
    IN  IF idx = {} THEN <<>>
        ELSE SubSeq(s, CHOOSE i \in idx : \A j \in idx : i <= j,
                       CHOOSE i \in idx : \A j \in idx : i >= j)

HasAt(s, i, chars) == i >= 1 /\ i <= Len(s) /\ s[i] \in chars
SkipOne(s, i, chars) == IF HasAt(s, i, chars) THEN i + 1 ELSE i

\* the value of the numeral b: its integer digits end before a, its fraction
\* before c, and its exponent digits are b[es], ..., b[ee - 1]
FloatValue(b, sign, a, c, es, ee) ==
    LET nFrac == IF c > a THEN c - a - 1 ELSE 0
        hasExp == HasAt(b, c, {"e", "E"})
        expo == IF hasExp
                THEN (IF HasAt(b, c + 1, {"-"}) THEN -1 ELSE 1) * DigitsValue(b, es, ee)
                ELSE 0
        mant == DigitsValue(b, 1, a) * Pow10(nFrac) + DigitsValue(b, a + 1, c)
        wellFormed == /\ (a - 1) + nFrac >= 1
                      /\ ee = Len(b) + 1
                      /\ hasExp => ee - es >= 1
    IN  IF ~wellFormed THEN Raise(ValueError)
        ELSE IF expo >= 0 THEN Ok(Fin(sign * mant * Pow10(expo), Pow10(nFrac)))
        ELSE Ok(Fin(sign * mant, Pow10(nFrac - expo)))

FloatExponent(b, sign, a, c) ==
    IF HasAt(b, c, {"e", "E"})
    THEN FloatValue(b, sign, a, c, SkipOne(b, c + 1, {"+", "-"}),
                    DigitEnd(b, SkipOne(b, c + 1, {"+", "-"})))
    ELSE FloatValue(b, sign, a, c, c, c)

FloatFraction(b, sign, a) ==
    FloatExponent(b, sign, a, IF HasAt(b, a, {"."}) THEN DigitEnd(b, a + 1) ELSE a)

FloatBody(b, sign) ==
    IF PyLower(b) \in {s_inf, s_infinity} THEN Ok(Inf(sign))
    ELSE IF PyLower(b) = s_nan THEN Ok(NaN)
    ELSE FloatFraction(b, sign, DigitEnd(b, 1))

FloatSigned(t) ==
    IF HasAt(t, 1, {"+", "-"})
    THEN FloatBody(SubSeq(t, 2, Len(t)), IF t[1] = "-" THEN -1 ELSE 1)
    ELSE FloatBody(t, 1)

\* float(s): blanks stripped, an optional sign, then inf, infinity or nan in
\* any letter case, or a decimal numeral with an optional fraction and an
\* optional exponent; anything else raises ValueError
PyFloat(s) == FloatSigned(PyStrip(s))

AlignChars == {"<", ">", "=", "^"}

\* the specification is parsed; st holds what was found and the index after it
FormatStrApply(spec, s, st) ==
    LET parses == /\ st.i = Len(spec) + 1
                  /\ st.hasPrec => st.precDigits >= 1
        accepted == /\ st.type \in {"", "s"}
                    /\ ~st.hasSign /\ ~st.hasAlt /\ ~st.hasGroup
                    /\ ~(st.hasAlign /\ st.align = "=")
        cut == IF st.hasPrec /\ st.prec < Len(s) THEN SubSeq(s, 1, st.prec) ELSE s
        gap == IF st.width > Len(cut) THEN st.width - Len(cut) ELSE 0
        left == IF st.align = ">" THEN gap ELSE IF st.align = "^" THEN gap \div 2 ELSE 0
        pad(k) == [j \in 1..k |-> IF st.hasZero /\ ~st.hasFill THEN "0" ELSE st.fill]
    IN  IF parses /\ accepted THEN Ok(pad(left) \o cut \o pad(gap - left))
        ELSE Raise(ValueError)

FormatStrType(spec, s, st) ==
    FormatStrApply(spec, s,
        [st EXCEPT !.type = IF st.i <= Len(spec) THEN spec[st.i] ELSE "",
                   !.i = IF st.i <= Len(spec) THEN st.i + 1 ELSE st.i])

FormatStrPrecision(spec, s, st) ==
    IF HasAt(spec, st.i, {"."})
    THEN FormatStrType(spec, s,
             [st EXCEPT !.hasPrec = TRUE,
                        !.precDigits = DigitEnd(spec, st.i + 1) - (st.i + 1),
                        !.prec = DigitsValue(spec, st.i + 1, DigitEnd(spec, st.i + 1)),
                        !.i = DigitEnd(spec, st.i + 1)])
    ELSE FormatStrType(spec, s, st)

FormatStrGroup(spec, s, st) ==
    FormatStrPrecision(spec, s,
        [st EXCEPT !.hasGroup = HasAt(spec, st.i, {",", "_"}),
                   !.i = SkipOne(spec, st.i, {",", "_"})])

FormatStrWidth(spec, s, st) ==
    FormatStrGroup(spec, s,
        [st EXCEPT !.width = DigitsValue(spec, st.i, DigitEnd(spec, st.i)),
                   !.i = DigitEnd(spec, st.i)])

FormatStrZero(spec, s, st) ==
    FormatStrWidth(spec, s,
        [st EXCEPT !.hasZero = HasAt(spec, st.i, {"0"}), !.i = SkipOne(spec, st.i, {"0"})])

FormatStrAlt(spec, s, st) ==
    FormatStrZero(spec, s,
        [st EXCEPT !.hasAlt = HasAt(spec, st.i, {"#"}), !.i = SkipOne(spec, st.i, {"#"})])

FormatStrSign(spec, s, st) ==
    FormatStrAlt(spec, s,
        [st EXCEPT !.hasSign = HasAt(spec, st.i, {"+", "-", " "}),
                   !.i = SkipOne(spec, st.i, {"+", "-", " "})])

FormatStrStart ==
    [i |-> 1, fill |-> " ", align |-> "<", hasFill |-> FALSE, hasAlign |-> FALSE,
     hasSign |-> FALSE, hasAlt |-> FALSE, hasZero |-> FALSE, width |-> 0,
     hasGroup |-> FALSE, hasPrec |-> FALSE, precDigits |-> 0, prec |-> 0, type |-> ""]

\* format(s, spec) for a str s: the format specification mini-language
\* [[fill]align][sign][#][0][width][grouping][.precision][type]; a
\* specification that does not parse, or that a str does not accept, raises
\* ValueError
PyFormatStr(spec, s) ==
    IF HasAt(spec, 2, AlignChars)
    THEN FormatStrSign(spec, s, [FormatStrStart EXCEPT !.i = 3, !.fill = spec[1],
                                     !.align = spec[2], !.hasFill = TRUE, !.hasAlign = TRUE])
    ELSE IF HasAt(spec, 1, AlignChars)
    THEN FormatStrSign(spec, s, [FormatStrStart EXCEPT !.i = 2, !.align = spec[1],
                                     !.hasAlign = TRUE])
    ELSE FormatStrSign(spec, s, FormatStrStart)

\* (prefix + "{:spec}").format(s)
PyFormat(prefix, spec, s) ==
    LET f == PyFormatStr(spec, s)
    IN  IF f.ok THEN Ok(prefix \o f.val) ELSE f

(* -------------------------- name normalizer ---------------------------- *)
\* The try block raises ValueError from float(), from round() of nan and from
\* str.format; the handler turns each into "return the name unchanged".
\* OverflowError (round of inf) and RuntimeError pass through.
field_name_from_hdf_name(hdf_name) ==
    LET f == PyFloat(hdf_name)
        r == PyRound(f.val)
        prefixed == PyFormat(s_n, s_percent_s, hdf_name)
        message == PyFormat(<<>>, s_percent_s, hdf_name)
    IN  IF ~f.ok THEN Ok(hdf_name)
        ELSE IF ~r.ok THEN (IF r.err = ValueError THEN Ok(hdf_name) ELSE Raise(r.err))
        ELSE IF FEq(f.val, Fin(r.val, 1))
             THEN (IF prefixed.ok THEN Ok(prefixed.val) ELSE Ok(hdf_name))
             ELSE (IF message.ok THEN Raise(RuntimeErrorFieldName) ELSE Ok(hdf_name))

(* ---------------------------- tree crawler ----------------------------- *)
\* nodes of the HDF5 file
Group(items) == [kind |-> "Group", items |-> items]
Dataset(value) == [kind |-> "Dataset", value |-> value]
OtherNode == [kind |-> "Other"]

\* values of the decoded tree: a nested dict or an array
DictVal(d) == [t |-> "dict", items |-> d]
Array(dtype, shape, data) == [t |-> "array", dtype |-> dtype, shape |-> shape, data |-> data]

EmptyDict == [x \in {} |-> <<>>]
\* d[k] = v
Put(d, k, v) == [x \in DOMAIN d \cup {k} |-> IF x = k THEN v ELSE d[x]]

RECURSIVE crawl_h5_group(_)
RECURSIVE crawl_items(_, _, _)
\* the loop of crawl_h5_group from item i on, result being the dict so far
crawl_items(items, i, result) ==
    IF i > Len(items) THEN Ok(result)
    ELSE LET item_name == items[i][1]
             item == items[i][2]
             field_name == field_name_from_hdf_name(item_name)
             sub == crawl_h5_group(item)
         IN  IF item.kind = "Group"
             THEN IF ~field_name.ok THEN field_name
                  ELSE IF ~sub.ok THEN sub
                  ELSE crawl_items(items, i + 1, Put(result, field_name.val, DictVal(sub.val)))
             ELSE IF item.kind = "Dataset"
             THEN IF ~field_name.ok THEN field_name
                  ELSE crawl_items(items, i + 1, Put(result, field_name.val, item.value))
             ELSE crawl_items(items, i + 1, result)

crawl_h5_group(group) == crawl_items(group.items, 1, EmptyDict)

(* ------------------------- numpy array helpers -------------------------- *)
Has(d, k) == k \in DOMAIN d

\* the coefficient row left in its stored order
flipud_not_reversed(row) == row

\* numpy.flipud of a 1-D array
flipud(row) == [i \in 1..Len(row) |-> row[Len(row) + 1 - i]]

RECURSIVE polyval_from(_, _, _, _)
\* the loop of numpy.polyval: y = y * x + pv for each pv of p in turn
polyval_from(p, x, i, y) ==
    IF i > Len(p) THEN y ELSE polyval_from(p, x, i + 1, FAdd(FMul(y, x), p[i]))

\* numpy.polyval(p, x) at one sample x: p holds the highest degree first
polyval(p, x) == polyval_from(p, x, 1, Fin(0, 1))

RECURSIVE mask_select(_, _, _)
mask_select(values, mask, i) ==
    IF i > Len(values) THEN <<>>
    ELSE (IF mask[i] THEN <<values[i]>> ELSE <<>>) \o mask_select(values, mask, i + 1)

\* a[mask] for a 1-D array a and a boolean array mask: the lengths must agree
BoolIndex(a, mask) ==
    IF Len(a.data) # Len(mask) THEN Raise(IndexError)
    ELSE LET picked == mask_select(a.data, mask, 1)
         IN  Ok(Array(a.dtype, <<Len(picked)>>, picked))

\* a.astype(bool) of a 1-D array
astype_bool(a) == [i \in 1..Len(a.data) |-> a.data[i] # 0]

\* a.size
ArraySize(a) ==
    IF Len(a.shape) = 0 THEN 1
    ELSE IF Len(a.shape) = 1 THEN a.shape[1]
    ELSE a.shape[1] * a.shape[2]

SingleSignificand == 2 ^ 24

RECURSIVE SingleUlp(_, _)
\* the spacing of single-precision values around the integer m >= 0
SingleUlp(m, q) == IF m \div q < SingleSignificand THEN q ELSE SingleUlp(m, 2 * q)

\* a double narrowed to single precision: the significand is rounded to 24
\* bits, a tie to the even one (d is a power of two on the values modelled,
\* so the significand of n/d is that of n)
NarrowToSingle(x) ==
    IF x.k # "fin" THEN x
    ELSE LET m == Abs(x.n)
             q == SingleUlp(m, 1)
             r == m % q
             base == m - r
             rounded == IF 2 * r < q THEN base
                        ELSE IF 2 * r > q THEN base + q
                        ELSE IF (base \div q) % 2 = 0 THEN base ELSE base + q
         IN  Fin(Sign(x.n) * rounded, x.d)

\* a.astype('single') of a 2-D array
astype_single(a) ==
    Array("float32", a.shape,
          [i \in 1..Len(a.data) |-> [j \in 1..Len(a.data[i]) |-> NarrowToSingle(a.data[i][j])]])

(* ------------------------ analog scaling engine ------------------------- *)
\* numpy.empty leaves the result uninitialized: a cell the loop does not
\* write holds whatever was in memory, here the value uninit
scaled_double_analog_data_from_raw(data_as_ADC_counts, channel_scales, scaling_coefficients, uninit) ==
    LET inverse_channel_scales ==
            [i \in 1..Len(channel_scales.data) |-> NpDivide(Fin(1, 1), channel_scales.data[i])]
        n_channels == ArraySize(channel_scales)
        rows == data_as_ADC_counts.shape[1]
        cols == data_as_ADC_counts.shape[2]
        cell(i, j) ==
            IF i <= n_channels
            THEN FMul(inverse_channel_scales[i],
                      polyval(flipud(scaling_coefficients.data[i]),
                              Fin(data_as_ADC_counts.data[i][j], 1)))
            ELSE uninit
    IN  IF n_channels > rows \/ n_channels > scaling_coefficients.shape[1]
        THEN Raise(IndexError)
        ELSE Ok(Array("float64", data_as_ADC_counts.shape,
                      [i \in 1..rows |-> [j \in 1..cols |-> cell(i, j)]]))

scaled_single_analog_data_from_raw(dataAsADCCounts, channelScales, scalingCoefficients, uninit) ==
    LET scaledData == scaled_double_analog_data_from_raw(dataAsADCCounts, channelScales,
                                                         scalingCoefficients, uninit)
    IN  IF scaledData.ok THEN Ok(astype_single(scaledData.val)) ELSE scaledData

(* ----------------------------- loadDataFile ----------------------------- *)
\* 100.0e6, the timebase of the boards in Hz
Timebase == Fin(100000000, 1)
\* 0.9125
VersionThreshold == Fin(9125, 10000)
\* a local variable that is not assigned yet
Unset == [k |-> "unset", n |-> 0, d |-> 0]

\* header["VersionString"] decoded and parsed, or 0 (the payload is ASCII
\* text, which decodes byte for byte)
resolve_version(header) ==
    IF Has(header, s_VersionString)
    THEN PyFloat(header[s_VersionString].data)
    ELSE Ok(Fin(0, 1))

\* the version gate dropped: every file is corrected
needs_rate_fix_any_version(v) == TRUE

\* version < 0.9125
needs_rate_fix(v) == FLess(v, VersionThreshold)

\* header[group]["SampleRate"] = numpy.array(value)
SetSampleRate(tree, group, value) ==
    LET header == tree[s_header].items
    IN  Put(tree, s_header,
            DictVal(Put(header, group,
                        DictVal(Put(header[group].items, s_SampleRate,
                                    Array("float64", <<>>, value))))))

SampleRateOf(tree, group) == tree[s_header].items[group].items[s_SampleRate].data

\* the acquisition half of the rate correction: the boards floor()
fix_acquisition_sample_rate(tree) ==
    LET nominal_acquisition_sample_rate == SampleRateOf(tree, s_Acquisition)
        nominal_n_timebase_ticks_per_sample == PyDivide(Timebase, nominal_acquisition_sample_rate)
        rounded == PyRound(nominal_n_timebase_ticks_per_sample.val)
        actual_acquisition_sample_rate ==
            PyDivide(Timebase, Fin(PyFloor(nominal_n_timebase_ticks_per_sample.val), 1))
    IN  IF ~nominal_n_timebase_ticks_per_sample.ok THEN nominal_n_timebase_ticks_per_sample
        ELSE IF ~rounded.ok THEN rounded
        ELSE IF FEq(nominal_n_timebase_ticks_per_sample.val, Fin(rounded.val, 1)) THEN Ok(tree)
        ELSE IF ~actual_acquisition_sample_rate.ok THEN actual_acquisition_sample_rate
        ELSE Ok(SetSampleRate(tree, s_Acquisition, actual_acquisition_sample_rate.val))

\* the stimulation half: the boards round()
fix_stimulation_sample_rate(tree) ==
    LET nominal_stimulation_sample_rate == SampleRateOf(tree, s_Stimulation)
        nominal_n_timebase_ticks_per_sample == PyDivide(Timebase, nominal_stimulation_sample_rate)
        rounded == PyRound(nominal_n_timebase_ticks_per_sample.val)
        actual_stimulation_sample_rate == PyDivide(Timebase, Fin(rounded.val, 1))
    IN  IF ~nominal_n_timebase_ticks_per_sample.ok THEN nominal_n_timebase_ticks_per_sample
        ELSE IF ~rounded.ok THEN rounded
        ELSE IF FEq(nominal_n_timebase_ticks_per_sample.val, Fin(rounded.val, 1)) THEN Ok(tree)
        ELSE IF ~actual_stimulation_sample_rate.ok THEN actual_stimulation_sample_rate
        ELSE Ok(SetSampleRate(tree, s_Stimulation, actual_stimulation_sample_rate.val))

\* the declared channel count: header.NAIChannels, else the element count of
\* the old scale vector; the lookups are outside every try block
resolve_channel_count(header) ==
    LET acq == header[s_Acquisition].items
    IN  IF Has(header, s_NAIChannels) THEN Ok(header[s_NAIChannels].data)
        ELSE IF ~Has(header, s_Acquisition) THEN Raise(KeyErrorLookup)
        ELSE IF Has(acq, s_AnalogChannelScales)
             THEN Ok(Fin(ArraySize(acq[s_AnalogChannelScales]), 1))
        ELSE IF Has(acq, s_ChannelScales)
             THEN Ok(Fin(ArraySize(acq[s_ChannelScales]), 1))
        ELSE Raise(KeyErrorLookup)

\* the selector compared without lower()
wants_scaling_case_sensitive(fmt, n) == fmt # s_raw /\ FLess(Fin(0, 1), n)

\* the channel count not consulted
wants_scaling_any_count(fmt, n) == PyLower(fmt) # s_raw

\* format_string.lower() != "raw" and n_a_i_channels > 0
wants_scaling(fmt, n) == PyLower(fmt) # s_raw /\ FLess(Fin(0, 1), n)

\* len(field_name) >= 5 and field_name[0:5] is "sweep" or "trial"
is_sweep_or_trial(field_name) ==
    /\ Len(field_name) >= 5
    /\ (PySlice(field_name, 0, 5) = s_sweep \/ PySlice(field_name, 0, 5) = s_trial)

\* header[new] if present, else header["Acquisition"][old]; a missing key
\* raises the KeyError with the given message
lookup_with_fallback(header, new, old, message) ==
    IF Has(header, new) THEN Ok(header[new])
    ELSE IF Has(header, s_Acquisition) /\ Has(header[s_Acquisition].items, old)
         THEN Ok(header[s_Acquisition].items[old])
         ELSE Raise(message)

\* the scaling pass once the guard holds
scale_sweeps(tree, fmt, uninit) ==
    LET header == tree[s_header].items
        all_analog_channel_scales ==
            lookup_with_fallback(header, s_AIChannelScales, s_AnalogChannelScales, KeyErrorScales)
        is_active ==
            lookup_with_fallback(header, s_IsAIChannelActive, s_IsAnalogChannelActive, KeyErrorActive)
        analog_channel_scales ==
            BoolIndex(all_analog_channel_scales.val, astype_bool(is_active.val))
        analog_scaling_coefficients ==
            lookup_with_fallback(header, s_AIScalingCoefficients, s_AnalogScalingCoefficients,
                                 KeyErrorCoefficients)
        does_user_want_single == PyLower(fmt) = s_single
        sweeps == {f \in DOMAIN tree : is_sweep_or_trial(f)}
        scaled_analog_data(f) ==
            IF tree[f].t # "dict" THEN Raise(IndexError)
            ELSE IF ~Has(tree[f].items, s_analogScans) THEN Raise(KeyErrorLookup)
            ELSE IF does_user_want_single
            THEN scaled_single_analog_data_from_raw(tree[f].items[s_analogScans],
                     analog_channel_scales.val, analog_scaling_coefficients.val, uninit)
            ELSE scaled_double_analog_data_from_raw(tree[f].items[s_analogScans],
                     analog_channel_scales.val, analog_scaling_coefficients.val, uninit)
        failing == {f \in sweeps : ~scaled_analog_data(f).ok}
    IN  IF ~all_analog_channel_scales.ok THEN all_analog_channel_scales
        ELSE IF ~is_active.ok THEN is_active
        ELSE IF ~analog_channel_scales.ok THEN analog_channel_scales
        ELSE IF ~analog_scaling_coefficients.ok THEN analog_scaling_coefficients
        ELSE IF failing # {} THEN scaled_analog_data(CHOOSE f \in failing : TRUE)
        ELSE Ok([f \in DOMAIN tree |->
                    IF f \in sweeps
                    THEN DictVal(Put(tree[f].items, s_analogScans, scaled_analog_data(f).val))
                    ELSE tree[f]])

\* lines 67-112
scale_analog(tree, fmt, n, uninit) ==
    IF wants_scaling(fmt, n) THEN scale_sweeps(tree, fmt, uninit) ELSE Ok(tree)

(* ------------------------------ the files ------------------------------- *)
\* the most declared analog channels and the most scans per sweep of a file
MaxCh == 2
MaxScans == 2

s_RAW == <<"R", "A", "W">>
s_Single == <<"S", "i", "n", "g", "l", "e">>
s_sweep_1 == s_sweep \o <<"_", "1">>
s_trial_2 == s_trial \o <<"_", "2">>
\* a top-level group that is no sweep: its key shares four letters with "sweep"
s_swee3 == <<"s", "w", "e", "e", "3">>

Formats == {s_double, s_single, s_raw, s_RAW, s_Single}

\* version strings; <<>> stands for a header without VersionString, and the
\* last one is no number
NoVersion == <<>>
Versions == {NoVersion, <<"0", ".", "9", "1", "2">>, <<"0", ".", "9", "1", "2", "5">>,
             <<"0", ".", "9", "1", "3">>, <<"1", ".", "0", ".", "2">>}

\* nominal sample rates: 20 kHz (5000 ticks per sample), 40 MHz (2.5 ticks)
\* and 60 MHz (5/3 ticks)
Rates == {Fin(20000, 1), Fin(40000000, 1), Fin(60000000, 1)}

\* node names
NodeNames == {<<"3">>, <<"0", "0", "7">>, <<"3", ".", "5">>, <<"c", "h", "1">>,
              <<"2", ".", "0">>, <<"-", "2">>, <<"1", "e", "2">>, s_inf, s_nan}

\* per-channel calibrations: the scale and the coefficient row, lowest
\* degree first
Calibrations == <<[scale |-> 2, coef |-> <<0, 1, 0>>],
                  [scale |-> 1, coef |-> <<0, 0, 1>>],
                  [scale |-> 0, coef |-> <<-10, 1, 0>>]>>
\* the calibrations of nch channels, taken in turn from the c-th on
CalibrationsFrom(c, nch) == [i \in 1..nch |-> Calibrations[((c + i - 1) % 3) + 1]]

\* raw ADC counts
RawCounts == <<10, -3, 4097>>
\* a trace of sc scans, taken in turn from the r-th count on
TraceFrom(r, sc) == [j \in 1..sc |-> RawCounts[((r + j - 1) % 3) + 1]]

\* what numpy.empty may find in memory
UninitValues == {Fin(0, 1), Fin(7, 1)}

NoExtra == [name |-> <<>>, kind |-> "none", place |-> "none"]

Optional(present, item) == IF present THEN <<item>> ELSE <<>>

ActiveCount(mask) == Cardinality({i \in 1..Len(mask) : mask[i] # 0})

\* the sweep payload: one row per active channel, row i being the trace
\* rotated by i - 1 scans
RawScans(p) ==
    Array("int16", <<ActiveCount(p.mask), p.scans>>,
          [i \in 1..ActiveCount(p.mask) |->
              [j \in 1..p.scans |-> p.trace[((i + j - 2) % p.scans) + 1]]])

ScalesArray(p) ==
    Array("float64", <<Len(p.calib)>>, [i \in 1..Len(p.calib) |-> Fin(p.calib[i].scale, 1)])
MaskArray(p) == Array("uint8", <<Len(p.mask)>>, p.mask)
CoefficientsArray(p) ==
    Array("float64", <<Len(p.calib), 3>>,
          [i \in 1..Len(p.calib) |-> [c \in 1..3 |-> Fin(p.calib[i].coef[c], 1)]])

ExtraNode(p) ==
    IF p.extra.kind = "Group" THEN Group(<<>>)
    ELSE IF p.extra.kind = "Dataset" THEN Dataset(Array("int16", <<>>, 1))
    ELSE OtherNode

SweepGroup(p) == Group(<< <<s_analogScans, Dataset(RawScans(p))>> >>)

\* the file a parameter record describes
MkFile(p) ==
    LET acquisition ==
            << <<s_SampleRate, Dataset(Array("float64", <<>>, p.acq))>> >>
            \o Optional(p.scalesAt = "old", <<s_AnalogChannelScales, Dataset(ScalesArray(p))>>)
            \o Optional(p.scalesAt = "oldest", <<s_ChannelScales, Dataset(ScalesArray(p))>>)
            \o Optional(p.maskAt = "old", <<s_IsAnalogChannelActive, Dataset(MaskArray(p))>>)
            \o Optional(p.coefAt = "old",
                        <<s_AnalogScalingCoefficients, Dataset(CoefficientsArray(p))>>)
        stimulation == << <<s_SampleRate, Dataset(Array("float64", <<>>, p.stim))>> >>
        header ==
            Optional(p.ver # NoVersion, <<s_VersionString, Dataset(Array("bytes", <<>>, p.ver))>>)
            \o << <<s_Acquisition, Group(acquisition)>>, <<s_Stimulation, Group(stimulation)>> >>
            \o Optional(p.nai # "absent",
                        <<s_NAIChannels,
                          Dataset(Array("float64", <<>>,
                                        Fin(IF p.nai = "zero" THEN 0 ELSE Len(p.mask), 1)))>>)
            \o Optional(p.scalesAt = "new", <<s_AIChannelScales, Dataset(ScalesArray(p))>>)
            \o Optional(p.maskAt = "new", <<s_IsAIChannelActive, Dataset(MaskArray(p))>>)
            \o Optional(p.coefAt = "new", <<s_AIScalingCoefficients, Dataset(CoefficientsArray(p))>>)
            \o Optional(p.extra.place = "header", <<p.extra.name, ExtraNode(p)>>)
    IN  Group(<< <<s_header, Group(header)>>,
                 <<s_sweep_1, SweepGroup(p)>>,
                 <<s_trial_2, SweepGroup(p)>>,
                 <<s_swee3, SweepGroup(p)>> >>
              \o Optional(p.extra.place = "root", <<p.extra.name, ExtraNode(p)>>))

\* a new-schema file of version 0.913 with one active channel
BaseInput ==
    [fmt |-> s_double, ver |-> <<"0", ".", "9", "1", "3">>,
     acq |-> Fin(20000, 1), stim |-> Fin(20000, 1),
     nai |-> "count", scalesAt |-> "new", maskAt |-> "new", coefAt |-> "new",
     mask |-> <<1>>, calib |-> <<[scale |-> 2, coef |-> <<0, 1, 0>>]>>,
     scans |-> 1, trace |-> <<10>>, extra |-> NoExtra]

\* files with one more node, of every name and kind, at the root or in the header
InputsName ==
    {[BaseInput EXCEPT !.extra = [name |-> nm, kind |-> kd, place |-> pl]] :
        nm \in NodeNames, kd \in {"Group", "Dataset", "Other"}, pl \in {"root", "header"}}

\* files of every version and every pair of nominal rates
InputsRate ==
    {[BaseInput EXCEPT !.ver = v, !.acq = a, !.stim = s, !.fmt = f] :
        v \in Versions, a \in Rates, s \in Rates, f \in {s_double, s_raw}}

\* headers of every layout of the channel metadata
InputsLayout ==
    {[BaseInput EXCEPT !.nai = n, !.scalesAt = sc, !.maskAt = m, !.coefAt = c, !.fmt = f] :
        n \in {"absent", "zero", "count"}, sc \in {"new", "old", "oldest", "none"},
        m \in {"new", "old", "none"}, c \in {"new", "old", "none"}, f \in Formats}

\* files of every channel count and mask, with calibrations and payloads
\* that differ from channel to channel and from scan to scan
InputsScale ==
    UNION {UNION {{[BaseInput EXCEPT !.fmt = f, !.mask = m, !.calib = CalibrationsFrom(c, nch),
                                      !.scans = sc, !.trace = TraceFrom(r, sc)] :
                       f \in {s_double, s_single, s_raw},
                       m \in [1..nch -> {0, 1}], c \in 0..2, r \in 0..2} :
                  sc \in 1..MaxScans} :
           nch \in 0..MaxCh}

(* --------------------------- the state machine -------------------------- *)
\* loadDataFile(filename, format_string) is called on the file p describes
Start(p) ==
    /\ h5file = MkFile(p)
    /\ format_string = p.fmt
    /\ pc = "crawl"
    /\ data_file_as_dict = EmptyDict
    /\ version = Unset
    /\ n_a_i_channels = Unset
    /\ error = ""

Init ==
    \/ \E p \in InputsName : Start(p)
    \/ \E p \in InputsRate : Start(p)
    \/ \E p \in InputsLayout : Start(p)
    \/ \E p \in InputsScale : Start(p)

\* a step of loadDataFile that either stores a new tree or raises
Advance(result, next) ==
    IF result.ok
    THEN /\ data_file_as_dict' = result.val
         /\ pc' = next
         /\ error' = ""
    ELSE /\ data_file_as_dict' = data_file_as_dict
         /\ pc' = "failed"
         /\ error' = result.err

\* lines 24-29: crawl the file, then take the header
Crawl ==
    /\ pc = "crawl"
    /\ LET tree == crawl_h5_group(h5file)
       IN  Advance(IF tree.ok /\ ~Has(tree.val, s_header) THEN Raise(KeyErrorLookup) ELSE tree,
                   "version")
    /\ UNCHANGED <<h5file, format_string, version, n_a_i_channels>>

\* lines 30-35
ResolveVersion ==
    /\ pc = "version"
    /\ LET v == resolve_version(data_file_as_dict[s_header].items)
       IN  /\ version' = IF v.ok THEN v.val ELSE version
           /\ Advance(IF v.ok THEN Ok(data_file_as_dict) ELSE v, "acquisition")
    /\ UNCHANGED <<h5file, format_string, n_a_i_channels>>

\* lines 36-45
FixAcquisitionSampleRate ==
    /\ pc = "acquisition"
    /\ Advance(IF needs_rate_fix(version)
               THEN fix_acquisition_sample_rate(data_file_as_dict)
               ELSE Ok(data_file_as_dict),
               "stimulation")
    /\ UNCHANGED <<h5file, format_string, version, n_a_i_channels>>

\* lines 36 and 46-53
FixStimulationSampleRate ==
    /\ pc = "stimulation"
    /\ Advance(IF needs_rate_fix(version)
               THEN fix_stimulation_sample_rate(data_file_as_dict)
               ELSE Ok(data_file_as_dict),
               "count")
    /\ UNCHANGED <<h5file, format_string, version, n_a_i_channels>>

\* lines 57-66
ResolveChannelCount ==
    /\ pc = "count"
    /\ LET n == resolve_channel_count(data_file_as_dict[s_header].items)
       IN  /\ n_a_i_channels' = IF n.ok THEN n.val ELSE n_a_i_channels
           /\ Advance(IF n.ok THEN Ok(data_file_as_dict) ELSE n, "scale")
    /\ UNCHANGED <<h5file, format_string, version>>

\* lines 67-114
ScaleAnalog ==
    /\ pc = "scale"
    /\ \E uninit \in UninitValues :
           Advance(scale_analog(data_file_as_dict, format_string, n_a_i_channels, uninit), "done")
    /\ UNCHANGED <<h5file, format_string, version, n_a_i_channels>>

Next ==
    \/ Crawl
    \/ ResolveVersion
    \/ FixAcquisitionSampleRate
    \/ FixStimulationSampleRate
    \/ ResolveChannelCount
    \/ ScaleAnalog

Spec == Init /\ [][Next]_vars

(* ------------------------------ properties ------------------------------ *)
\* the tree as the crawler read it
CrawledTree == crawl_h5_group(h5file).val
HeaderOf(tree) == tree[s_header].items
AnalogScansOf(tree, f) == tree[f].items[s_analogScans]

StartsWith(s, prefix) == Len(s) >= Len(prefix) /\ SubSeq(s, 1, Len(prefix)) = prefix
\* the top-level keys that name a sweep or a trial
SweepKeys(tree) == {f \in DOMAIN tree : StartsWith(f, s_sweep) \/ StartsWith(f, s_trial)}

SamePayload(a, b) == a.dtype = b.dtype /\ a.shape = b.shape /\ a.data = b.data

Returned == pc = "done"
Crawled == pc \notin {"crawl", "failed"}

\* the named children of the root and of the header that the crawler reads
ReadNodes ==
    LET root == h5file.items
        header == root[1][2].items
    IN  {<<"root", root[i][1]>> : i \in {i \in 1..Len(root) : root[i][2].kind # "Other"}}
        \cup {<<"header", header[i][1]>> : i \in {i \in 1..Len(header) : header[i][2].kind # "Other"}}
\* the dict a child of that place is stored in
DictAt(place) == IF place = "root" THEN data_file_as_dict ELSE HeaderOf(data_file_as_dict)

IsNumeral(nm) == PyFloat(nm).ok
IsIntegralNumeral(nm) == PyFloat(nm).ok /\ PyFloat(nm).val.k = "fin" /\ PyFloat(nm).val.d = 1
IsFractionalNumeral(nm) == PyFloat(nm).ok /\ PyFloat(nm).val.k = "fin" /\ PyFloat(nm).val.d # 1

\* C1: a node name that parses as a number with an integral value is returned
\* as "n" followed by the name unchanged, and the crawler stores the child
\* under that key
C1_IntegralNamePrefixed ==
    Crawled =>
        \A node \in ReadNodes :
            IsIntegralNumeral(node[2]) =>
                /\ field_name_from_hdf_name(node[2]) = Ok(s_n \o node[2])
                /\ Has(DictAt(node[1]), s_n \o node[2])

\* C2: a node name that parses as a number with a non-integral value makes the
\* load fail with the field-name error, and no tree is returned; a name that
\* does not parse as a number is returned unchanged
C2_FractionalNameFails ==
    pc # "crawl" =>
        \A node \in ReadNodes :
            /\ IsFractionalNumeral(node[2]) =>
                   /\ field_name_from_hdf_name(node[2]) = Raise(RuntimeErrorFieldName)
                   /\ pc = "failed"
                   /\ error = RuntimeErrorFieldName
            /\ ~IsNumeral(node[2]) => field_name_from_hdf_name(node[2]) = Ok(node[2])

\* round to the nearest integer, a tie away from zero
RoundHalfAway(a) ==
    LET fl == FloorDiv(a.n, a.d)
        twice == 2 * (a.n - fl * a.d)
    IN  IF twice < a.d THEN fl
        ELSE IF twice > a.d THEN fl + 1
        ELSE IF a.n >= 0 THEN fl + 1 ELSE fl

\* the ticks per sample of a nominal rate, as an exact fraction
TicksPerSample(rate) == Fin(Timebase.n * rate.d, rate.n)
NominalRate(group) == SampleRateOf(CrawledTree, group)
ReturnedRate(group) == SampleRateOf(data_file_as_dict, group)
VersionBelowThreshold == version.k = "fin" /\ 10000 * version.n < 9125 * version.d
VersionAtLeastThreshold == version.k = "fin" /\ 10000 * version.n >= 9125 * version.d

\* C3: below version 0.9125, a rate with a non-integral ticks-per-sample t is
\* corrected to 100,000,000 / floor(t) for Acquisition and to
\* 100,000,000 / round(t), a tie rounded away from zero, for Stimulation
C3_RateCorrection ==
    (Returned /\ VersionBelowThreshold) =>
        /\ TicksPerSample(NominalRate(s_Acquisition)).d # 1 =>
               ReturnedRate(s_Acquisition)
                   = Fin(100000000, PyFloor(TicksPerSample(NominalRate(s_Acquisition))))
        /\ TicksPerSample(NominalRate(s_Stimulation)).d # 1 =>
               ReturnedRate(s_Stimulation)
                   = Fin(100000000, RoundHalfAway(TicksPerSample(NominalRate(s_Stimulation))))

(* the scaling claims *)
RECURSIVE IntPow(_, _)
IntPow(x, k) == IF k = 0 THEN 1 ELSE x * IntPow(x, k - 1)

RECURSIVE PowerSumFrom(_, _, _)
\* coefs[k] * x^(k-1) summed from k up, the coefficients lowest degree first
PowerSumFrom(coefs, x, k) ==
    IF k > Len(coefs) THEN Fin(0, 1)
    ELSE FAdd(FMul(coefs[k], Fin(IntPow(x, k - 1), 1)), PowerSumFrom(coefs, x, k + 1))

\* (1 / scale) * sum over k of coefs[k] * x^k
ExpectedSample(scale, coefs, x) ==
    FMul(NpDivide(Fin(1, 1), scale), PowerSumFrom(coefs, x, 1))

IsSelector(fmt, word) ==
    /\ Len(fmt) = Len(word)
    /\ \A i \in 1..Len(word) : fmt[i] = word[i] \/ LowerChar(fmt[i]) = word[i]
IsRawSelector == IsSelector(format_string, s_raw)
IsSingleSelector == IsSelector(format_string, s_single)
IsDoubleSelector == IsSelector(format_string, s_double)

\* the channel metadata of a crawled header, in whichever layout it is
HasScales(header) ==
    \/ Has(header, s_AIChannelScales)
    \/ Has(header[s_Acquisition].items, s_AnalogChannelScales)
HasMask(header) ==
    \/ Has(header, s_IsAIChannelActive)
    \/ Has(header[s_Acquisition].items, s_IsAnalogChannelActive)
ScalesIn(header) ==
    IF Has(header, s_AIChannelScales) THEN header[s_AIChannelScales].data
    ELSE header[s_Acquisition].items[s_AnalogChannelScales].data
MaskIn(header) ==
    IF Has(header, s_IsAIChannelActive) THEN header[s_IsAIChannelActive].data
    ELSE header[s_Acquisition].items[s_IsAnalogChannelActive].data
CoefficientsIn(header) ==
    IF Has(header, s_AIScalingCoefficients) THEN header[s_AIScalingCoefficients].data
    ELSE header[s_Acquisition].items[s_AnalogScalingCoefficients].data

\* the declared channels that are active
ActiveIn(mask) == {c \in 1..Len(mask) : mask[c] # 0}
\* the declared channel that is the i-th active one
DeclaredIndex(active, i) ==
    CHOOSE c \in active : Cardinality({b \in active : b <= c}) = i

\* the load returned and the scaling pass ran
ScalingPerformed ==
    /\ Returned
    /\ IsDoubleSelector \/ IsSingleSelector
    /\ n_a_i_channels.n > 0

\* the double-precision samples of a raw payload, [i][j] being scan j of the
\* i-th active channel: the scale is that of the i-th active channel; the
\* coefficient row is row i of the stored matrix, or, with sameChannel, the
\* row of the i-th active channel
DoubleSamples(header, raw, sameChannel) ==
    LET scales == ScalesIn(header)
        coefs == CoefficientsIn(header)
        active == ActiveIn(MaskIn(header))
    IN  [i \in 1..raw.shape[1] |->
            [j \in 1..raw.shape[2] |->
                ExpectedSample(scales[DeclaredIndex(active, i)],
                               coefs[IF sameChannel THEN DeclaredIndex(active, i) ELSE i],
                               raw.data[i][j])]]

Narrowed(m) == [i \in 1..Len(m) |-> [j \in 1..Len(m[i]) |-> NarrowToSingle(m[i][j])]]
\* what the selector stores of double-precision samples
AsSelected(m) == IF IsSingleSelector THEN Narrowed(m) ELSE m
\* the cols x rows transpose of a rows x cols matrix
Transposed(m, rows, cols) == [j \in 1..cols |-> [i \in 1..rows |-> m[i][j]]]

C5_StoredTransposed ==
    ScalingPerformed =>
        LET crawled == CrawledTree
        IN  \A f \in SweepKeys(data_file_as_dict) :
                LET raw == AnalogScansOf(crawled, f)
                    stored == AnalogScansOf(data_file_as_dict, f)
                IN  raw.shape[1] >= 1 =>
                    /\ stored.shape = <<raw.shape[2], raw.shape[1]>>
                    /\ stored.data
                           = Transposed(AsSelected(DoubleSamples(HeaderOf(crawled), raw, FALSE)),
                                        raw.shape[1], raw.shape[2])

\* every sweep of the returned tree holds the payload the crawler read
SweepsUntouched ==
    LET crawled == CrawledTree
    IN  \A f \in SweepKeys(data_file_as_dict) :
            SamePayload(AnalogScansOf(data_file_as_dict, f), AnalogScansOf(crawled, f))

\* C6 as stated: with no active channel in the mask there is no scaling for
\* any format, whatever the declared channel count
C6_NoActiveChannelNoScaling ==
    (/\ Returned
     /\ HasMask(HeaderOf(CrawledTree))
     /\ ActiveIn(MaskIn(HeaderOf(CrawledTree))) = {}) => SweepsUntouched

\* C6 amended: with a declared channel count of 0 there is no scaling for
\* any format
C6_NoDeclaredChannelNoScaling ==
    (Returned /\ n_a_i_channels.n = 0) => SweepsUntouched

\* a double or single load returned with a declared count of 0 from a header
\* that holds scales
C6_Witness ==
    /\ Returned
    /\ n_a_i_channels.n = 0
    /\ IsDoubleSelector \/ IsSingleSelector
    /\ SweepKeys(data_file_as_dict) # {}
    /\ HasScales(HeaderOf(CrawledTree))

\* C7: a header with no scale field of either schema makes a double or single
\* load fail with the error that names the scales, with or without
\* NAIChannels
C7_MissingScalesNamed ==
    (/\ pc \in {"done", "failed"}
     /\ IsDoubleSelector \/ IsSingleSelector
     /\ crawl_h5_group(h5file).ok
     /\ ~HasScales(HeaderOf(CrawledTree))
     /\ ~Has(HeaderOf(CrawledTree)[s_Acquisition].items, s_ChannelScales))
        => (pc = "failed" /\ error = KeyErrorScales)

\* C8: with the selector raw in any letter case, everything outside the header
\* is, in the returned tree, what the crawler read
C8_RawUnscaled ==
    (Returned /\ IsRawSelector) =>
        /\ SweepsUntouched
        /\ \A f \in DOMAIN data_file_as_dict \ {s_header} : data_file_as_dict[f] = CrawledTree[f]

\* an upper-case RAW load returned for a file with a channel to scale
C8_Witness ==
    /\ Returned
    /\ format_string = s_RAW
    /\ n_a_i_channels.n > 0
    /\ SweepKeys(data_file_as_dict) # {}

RateUnchanged(group) == ReturnedRate(group) = NominalRate(group)
RatesSettled == pc \in {"count", "scale", "done"}

\* C9: at version 0.9125 or later both sample rates stay as crawled, whatever
\* the nominal rate; below it, a rate with an integral ticks-per-sample stays
\* as crawled
C9_RatesUnchanged ==
    RatesSettled =>
        /\ VersionAtLeastThreshold =>
               RateUnchanged(s_Acquisition) /\ RateUnchanged(s_Stimulation)
        /\ \A group \in {s_Acquisition, s_Stimulation} :
               (VersionBelowThreshold /\ TicksPerSample(NominalRate(group)).d = 1)
                   => RateUnchanged(group)

\* a file of version 0.9125 or later returned with a nominal rate of 2.5
\* ticks per sample
C9_Witness ==
    /\ Returned
    /\ VersionAtLeastThreshold
    /\ TicksPerSample(NominalRate(s_Acquisition)) = Fin(5, 2)
    /\ TicksPerSample(NominalRate(s_Stimulation)) = Fin(5, 2)

\* C10: when the mask excludes a declared channel and the scales and the
\* coefficient matrix have one entry per declared channel, the i-th active
\* channel is scaled with the scale and the coefficient row of the same
\* declared channel
C10_SameChannelMetadata ==
    ScalingPerformed =>
        LET crawled == CrawledTree
            header == HeaderOf(crawled)
        IN  (/\ ActiveIn(MaskIn(header)) # 1..Len(MaskIn(header))
             /\ Len(ScalesIn(header)) = Len(MaskIn(header))
             /\ Len(CoefficientsIn(header)) = Len(MaskIn(header)))
                => \A f \in SweepKeys(data_file_as_dict) :
                       AnalogScansOf(data_file_as_dict, f).data
                           = AsSelected(DoubleSamples(header, AnalogScansOf(crawled, f), TRUE))

====
